---- MODULE Spec2Model ----
(***************************************************************************)
(* A model of src/src/Lab_2_4_LR2.py: the LinearRegressor estimator (fit,  *)
(* fit_multiple, fit_gradient_descent, predict), evaluate_regression and   *)
(* one_hot_encode.                                                         *)
(*                                                                         *)
(* Numbers.  The program computes in IEEE double precision.  The model     *)
(* computes in exact rational arithmetic: a number is a pair <<n, d>> in   *)
(* lowest terms with d > 0.  Rounding is therefore outside the model; the  *)
(* three non-finite results a float division can give (nan, inf, -inf)     *)
(* are modelled where the program can produce them (evaluate_regression).  *)
(*                                                                         *)
(* Arrays.  A 1-D array is a sequence of numbers, a 2-D array a sequence   *)
(* of rows.  The X argument of fit and predict carries its ndim, because   *)
(* both functions branch on np.ndim(X).                                    *)
(***************************************************************************)
EXTENDS Integers, Sequences, FiniteSets, TLC

VARIABLES
    intercept,          \* self.intercept: None or Some(number)
    coefficients,       \* self.coefficients: None or Some(sequence of numbers)
    pc,                 \* "idle", or "gd_loop" inside fit_gradient_descent's for loop
    call,               \* the arguments of the call last made on the instance
    epoch,              \* the loop variable of fit_gradient_descent (epochs completed)
    history,            \* the local `history` of fit_gradient_descent
    training_history,   \* the local `training_history`: unbound (None) or Some(record)
    outcome,            \* how the last call ended: "ok", an exception, or "running"
    result,             \* what the last call returned (predict's vector), else <<>>
    fit_succeeded,      \* ghost: some fit call on the instance has returned normally
    ncalls,             \* ghost: calls made on the instance so far
    ev,                 \* one evaluate_regression call: its arguments and its result
    enc                 \* one one_hot_encode call: its arguments and its result

vars == <<intercept, coefficients, pc, call, epoch, history, training_history,
          outcome, result, fit_succeeded, ncalls, ev, enc>>

estimator_vars == <<intercept, coefficients, pc, call, epoch, history,
                    training_history, outcome, result, fit_succeeded, ncalls>>

------------------------------------------------------------------------------
(* Bounds of the model.                                                     *)

\* Calls made on one LinearRegressor instance.
MaxCalls == 2

\* Largest `iterations` argument of the single long gradient-descent fit.
MaxIter == 21

\* Largest `iterations` argument of a gradient-descent fit among other calls.
MaxShortIter == 2

\* Largest number of rows of a design matrix in the least-squares data sets.
MaxRows == 4

------------------------------------------------------------------------------
(* Python's None and a bound value.                                         *)

None == <<>>

Some(v) == <<v>>

IsNone(o) == Len(o) = 0

Val(o) == o[1]

------------------------------------------------------------------------------
(* Exact rational arithmetic standing for the program's float arithmetic.   *)

Abs(i) == IF i < 0 THEN -i ELSE i

RECURSIVE GCD(_, _)
GCD(a, b) == IF b = 0 THEN a ELSE GCD(b, a % b)

\* The number n/d (d # 0) in lowest terms with a positive denominator.
Q(n, d) ==
    LET g == GCD(Abs(n), Abs(d))
        s == IF d < 0 THEN -1 ELSE 1
    IN  <<(s * n) \div g, (s * d) \div g>>

R(i) == <<i, 1>>

Zero == R(0)

One == R(1)

\* Sums and products cancel common factors before they multiply, so that the
\* intermediate integers are no larger than the result needs.
QAdd(a, b) ==
    IF a[2] = b[2]
    THEN IF a[2] = 1 THEN <<a[1] + b[1], 1>> ELSE Q(a[1] + b[1], a[2])
    ELSE LET g == GCD(a[2], b[2])
         IN  Q(a[1] * (b[2] \div g) + b[1] * (a[2] \div g), (a[2] \div g) * b[2])

QNeg(a) == <<-a[1], a[2]>>

QSub(a, b) == QAdd(a, QNeg(b))

QMul(a, b) ==
    LET g1 == GCD(Abs(a[1]), b[2])
        g2 == GCD(Abs(b[1]), a[2])
    IN  IF a[1] = 0 \/ b[1] = 0
        THEN <<0, 1>>
        ELSE IF a[2] = 1 /\ b[2] = 1
             THEN <<a[1] * b[1], 1>>
             ELSE <<(a[1] \div g1) * (b[1] \div g2), (a[2] \div g2) * (b[2] \div g1)>>

\* a / b for b # 0.
QDiv(a, b) == QMul(a, IF b[1] < 0 THEN <<-b[2], -b[1]>> ELSE <<b[2], b[1]>>)

QAbs(a) == <<Abs(a[1]), a[2]>>

QIsZero(a) == a[1] = 0

------------------------------------------------------------------------------
(* numpy's array operations on 1-D and 2-D arrays.                          *)

\* An array built by a function constructor, with its elements computed once
\* (TLC leaves the constructor unevaluated until a sequence operator meets it).
Arr(f) == f \o <<>>

\* np.sum of a 1-D array.
RECURSIVE np_sum(_)
np_sum(v) == IF Len(v) = 0 THEN Zero ELSE QAdd(Head(v), np_sum(Tail(v)))

\* u * v, u - v and c * v on 1-D arrays of equal length.
VecMul(u, v) == Arr([i \in 1..Len(u) |-> QMul(u[i], v[i])])

VecSub(u, v) == Arr([i \in 1..Len(u) |-> QSub(u[i], v[i])])

VecScale(c, v) == Arr([i \in 1..Len(v) |-> QMul(c, v[i])])

\* The inner product u.dot(v) of two 1-D arrays of equal length.
VecDot(u, v) == np_sum(VecMul(u, v))

\* M.dot(v): a 2-D array times a 1-D array whose length is M's column count.
MatVec(M, v) == Arr([i \in 1..Len(M) |-> VecDot(M[i], v)])

\* M.T for a 2-D array with ncols columns.
Transpose(M, ncols) == Arr([j \in 1..ncols |-> Arr([i \in 1..Len(M) |-> M[i][j]])])

\* A.dot(B) for 2-D arrays, B having ncolsB columns.
MatMul(A, B, ncolsB) ==
    Arr([i \in 1..Len(A) |-> Arr([j \in 1..ncolsB |->
        np_sum(Arr([k \in 1..Len(B) |-> QMul(A[i][k], B[k][j])]))])])

MatAdd(A, B) ==
    Arr([i \in 1..Len(A) |-> Arr([j \in 1..Len(A[i]) |-> QAdd(A[i][j], B[i][j])])])

MatScale(c, A) ==
    Arr([i \in 1..Len(A) |-> Arr([j \in 1..Len(A[i]) |-> QMul(c, A[i][j])])])

Identity(n) == Arr([i \in 1..n |-> Arr([j \in 1..n |-> IF i = j THEN One ELSE Zero])])

Trace(A) == np_sum(Arr([i \in 1..Len(A) |-> A[i][i]]))

\* np.c_[np.ones((X.shape[0], 1)), X]: X with a leading column of ones.
AddOnes(X) == Arr([i \in 1..Len(X) |-> <<One>> \o X[i]])

\* X.shape[1] of a 2-D array with at least one row.
NCols(X) == Len(X[1])

\* X.reshape(-1, 1): a 1-D array as a single-column 2-D array.
reshape(v) == Arr([i \in 1..Len(v) |-> <<v[i]>>])

------------------------------------------------------------------------------
(* np.linalg.pinv of a symmetric matrix, computed exactly.                  *)
(*                                                                          *)
(* fit_multiple only ever passes G = X_b.T.dot(X_b), which is symmetric, so *)
(* G is diagonalisable and its Moore-Penrose pseudo-inverse is a polynomial *)
(* in G.  With the characteristic polynomial                                *)
(*     x^n + c_1 x^(n-1) + ... + c_n                                        *)
(* and k the largest index with c_k # 0 (the rank of G), the non-zero       *)
(* eigenvalues are the roots of x^k + c_1 x^(k-1) + ... + c_k, so that      *)
(* 1/x = -(x^(k-1) + c_1 x^(k-2) + ... + c_(k-1)) / c_k on them; and        *)
(* pinv(G) = G . r(G) . r(G) with r(G) = M_k / c_k, which is -1/x on the    *)
(* non-zero eigenvalues and 0 on the kernel.  M_j and c_j come from the     *)
(* Faddeev-LeVerrier recurrence.  PenroseConditions states the four         *)
(* defining equations of the pseudo-inverse for checking.                   *)

\* Steps 1..j of the Faddeev-LeVerrier recurrence for square G: at step i,
\* M_i (M_1 = I, M_i = G.M_(i-1) + c_(i-1) I), GM = G.M_i and c_i = -tr(GM)/i.
RECURSIVE FaddeevLeVerrier(_, _)
FaddeevLeVerrier(G, j) ==
    LET n == Len(G)
        before == IF j = 1 THEN <<>> ELSE FaddeevLeVerrier(G, j - 1)
        M == IF j = 1
             THEN Identity(n)
             ELSE MatAdd(before[j - 1].GM, MatScale(before[j - 1].c, Identity(n)))
        GM == MatMul(G, M, n)
    IN  Append(before, [M |-> M, GM |-> GM, c |-> QDiv(QNeg(Trace(GM)), R(j))])

\* The rank of symmetric G from its recurrence fl: the largest j with c_j # 0,
\* or 0 for the zero matrix.
RankIndex(fl) ==
    LET nz == {j \in 1..Len(fl) : ~QIsZero(fl[j].c)}
    IN  IF nz = {} THEN 0 ELSE CHOOSE j \in nz : \A i \in nz : i <= j

pinv(G) ==
    LET n == Len(G)
        fl == FaddeevLeVerrier(G, n)
        k == RankIndex(fl)
    IN  IF k = 0
        THEN Arr([i \in 1..n |-> Arr([j \in 1..n |-> Zero])])
        ELSE LET inv_c == QDiv(One, fl[k].c)
             IN  MatMul(MatScale(inv_c, fl[k].GM), MatScale(inv_c, fl[k].M), n)

------------------------------------------------------------------------------
(* LinearRegressor.                                                         *)

\* The outcomes of a call: normal return, the exceptions the code can raise,
\* and "running" while fit_gradient_descent is inside its loop.
Ok == "ok"

Running == "running"

ErrMethod == "ValueError: Method not available for training linear regression."

ErrNotFitted == "ValueError: Model is not yet fitted"

ErrShapes == "ValueError: shapes not aligned"

ErrBroadcast == "ValueError: operands could not be broadcast together"

ErrUnbound == "UnboundLocalError: training_history"

\* The accepted methods with one more that fit has no branch for.
ValidMethods_with_other == {"least_squares", "gradient_descent", "bogus"}

\* The values of `method` that fit accepts.
ValidMethods == {"least_squares", "gradient_descent"}

\* The X argument of fit and predict: np.ndim(X) and the array.
Array1(v) == [ndim |-> 1, data |-> v]

Array2(rows) == [ndim |-> 2, data |-> rows]

\* fit's `if np.ndim(X) == 1: X = X.reshape(-1, 1)`: the 2-D array dispatched.
fit_X(X) == IF X.ndim = 1 THEN reshape(X.data) ELSE X.data

\* The normal equation without the pseudo-inverse (a slip: the Gram matrix
\* used where its inverse is meant).
theta_best_not_inverted(X_b, y) ==
    LET n1 == NCols(X_b)
        Xt == Transpose(X_b, n1)
    IN  MatVec(MatMul(MatMul(Xt, X_b, n1), Xt, Len(X_b)), y)

\* np.linalg.pinv(X_b.T.dot(X_b)).dot(X_b.T).dot(y), for len(y) = rows of X_b.
theta_best(X_b, y) ==
    LET n1 == NCols(X_b)
        Xt == Transpose(X_b, n1)
    IN  MatVec(MatMul(pinv(MatMul(Xt, X_b, n1)), Xt, Len(X_b)), y)

\* predict's 2-D branch: X_b.dot(np.r_[intercept, coefficients]).
predict_2d(b, w, X) == MatVec(AddOnes(X), <<b>> \o w)

\* predict's 1-D branch: intercept + coefficients[0] * X.
predict_1d(b, w, v) == Arr([i \in 1..Len(v) |-> QAdd(b, QMul(w[1], v[i]))])

\* Whether numpy can broadcast 1-D arrays of lengths m and l against each other.
Broadcastable(m, l) == m = l \/ m = 1 \/ l = 1

\* predictions - y under numpy broadcasting (for Broadcastable lengths).
broadcast_sub(p, y) ==
    LET len == IF Len(p) = 1 THEN Len(y) ELSE Len(p)
    IN  Arr([i \in 1..len |-> QSub(IF Len(p) = 1 THEN p[1] ELSE p[i],
                                   IF Len(y) = 1 THEN y[1] ELSE y[i])])

\* (2 * learning_rate / m), the factor of both gradients.
step_factor(learning_rate, m) == QDiv(QMul(R(2), learning_rate), R(m))

\* The coefficient gradient with the learning rate applied a second time.
gradient_coefficients_lr_twice(X, error, learning_rate) ==
    VecScale(QMul(learning_rate, step_factor(learning_rate, Len(X))),
             MatVec(Transpose(X, NCols(X)), error))

\* (2 * learning_rate / m) * X.T.dot(error), for len(error) = rows of X.
gradient_coefficients(X, error, learning_rate) ==
    VecScale(step_factor(learning_rate, Len(X)),
             MatVec(Transpose(X, NCols(X)), error))

\* (2 * learning_rate / m) * np.sum(error).
gradient_intercept(X, error, learning_rate) ==
    QMul(step_factor(learning_rate, Len(X)), np_sum(error))

\* np.mean(error**2).
mse_of(error) == QDiv(np_sum(VecMul(error, error)), R(Len(error)))

\* history["coefficients"].append(self.coefficients) without the copy: every
\* entry is the one array that the in-place `-=` keeps changing.
append_coefficients_aliased(h, w) == Arr([i \in 1..(Len(h) + 1) |-> w])

\* history["coefficients"].append(self.coefficients.copy()).
append_coefficients(h, w) == Append(h, w)

\* np.random.rand(): the draws the model considers, each in [0, 1).
RandDraws == {Zero, Q(1, 2)}

\* np.random.rand(...) * 0.01.
small_random(draw) == QMul(draw, Q(1, 100))

NoCall == [op |-> "none", X |-> Array1(<<>>), y |-> <<>>, method |-> "",
           learning_rate |-> Zero, iterations |-> 0]

FitCall(X, y, method, learning_rate, iterations) ==
    [op |-> "fit", X |-> X, y |-> y, method |-> method,
     learning_rate |-> learning_rate, iterations |-> iterations]

PredictCall(X) ==
    [op |-> "predict", X |-> X, y |-> <<>>, method |-> "",
     learning_rate |-> Zero, iterations |-> 0]

EmptyHistory == [intercept |-> <<>>, coefficients |-> <<>>]

\* __init__: both parameters None, no call made.
EstimatorInit ==
    /\ intercept = None
    /\ coefficients = None
    /\ pc = "idle"
    /\ call = NoCall
    /\ epoch = 0
    /\ history = EmptyHistory
    /\ training_history = None
    /\ outcome = Ok
    /\ result = <<>>
    /\ fit_succeeded = FALSE
    /\ ncalls = 0

\* A call begins: the instance is idle (single-threaded, synchronous calls).
BeginCall(c) ==
    /\ pc = "idle"
    /\ ncalls < MaxCalls
    /\ call' = c
    /\ ncalls' = ncalls + 1

\* fit_multiple(X, y) for 2-D X.  The last dot raises when len(y) is not the
\* row count; the parameters are assigned after it.
fit_multiple(X, y) ==
    /\ LET X_b == AddOnes(X)
       IN  IF Len(y) # Len(X_b)
           THEN /\ outcome' = ErrShapes
                /\ UNCHANGED <<intercept, coefficients, fit_succeeded>>
           ELSE LET theta == theta_best(X_b, y)
                IN  /\ intercept' = Some(theta[1])
                    /\ coefficients' = Some(Tail(theta))
                    /\ outcome' = Ok
                    /\ fit_succeeded' = TRUE
    /\ UNCHANGED <<pc, epoch, history, training_history>>

\* fit_gradient_descent(X, y, learning_rate, iterations) up to the head of its
\* loop: the parameters are set to small random values, the history is empty
\* and training_history is not bound yet.
fit_gradient_descent(X, draw_b, draw_w) ==
    /\ coefficients' = Some(Arr([j \in 1..NCols(X) |-> small_random(draw_w)]))
    /\ intercept' = Some(small_random(draw_b))
    /\ history' = EmptyHistory
    /\ training_history' = None
    /\ epoch' = 0
    /\ pc' = "gd_loop"
    /\ outcome' = Running
    /\ UNCHANGED fit_succeeded

\* fit(X, y, method, learning_rate, iterations).  draw_b and draw_w are what
\* np.random.rand gives if the call reaches fit_gradient_descent.
fit(X, y, method, learning_rate, iterations, draw_b, draw_w) ==
    /\ BeginCall(FitCall(X, y, method, learning_rate, iterations))
    /\ result' = <<>>
    /\ IF method \notin ValidMethods
       THEN /\ outcome' = ErrMethod
            /\ UNCHANGED <<intercept, coefficients, pc, epoch, history,
                           training_history, fit_succeeded>>
       ELSE IF method = "least_squares"
            THEN fit_multiple(fit_X(X), y)
            ELSE IF method = "gradient_descent"
                 THEN fit_gradient_descent(fit_X(X), draw_b, draw_w)
                 ELSE /\ outcome' = Ok
                      /\ fit_succeeded' = TRUE
                      /\ UNCHANGED <<intercept, coefficients, pc, epoch, history,
                                     training_history>>

\* The call raises inside fit_gradient_descent: control leaves the function
\* with the parameters as they stand.
gd_raise(err) ==
    /\ pc' = "idle"
    /\ outcome' = err
    /\ UNCHANGED <<intercept, coefficients, call, epoch, history, training_history,
                   result, fit_succeeded, ncalls>>

\* One iteration of `for epoch in range(iterations)`.
gd_epoch ==
    /\ pc = "gd_loop"
    /\ epoch < call.iterations
    /\ LET X == fit_X(call.X)
           y == call.y
           m == Len(X)
           b == Val(intercept)
           w == Val(coefficients)
           predictions == predict_2d(b, w, X)
       IN  IF ~Broadcastable(m, Len(y))
           THEN gd_raise(ErrBroadcast)
           ELSE LET error == broadcast_sub(predictions, y)
                IN  IF Len(error) # m
                    THEN gd_raise(ErrShapes)
                    ELSE LET b2 == QSub(b, gradient_intercept(X, error, call.learning_rate))
                             w2 == VecSub(w, gradient_coefficients(X, error,
                                                                   call.learning_rate))
                             th == IF epoch = 0
                                   THEN [epoch |-> <<>>, mse |-> <<>>]
                                   ELSE Val(training_history)
                         IN  /\ intercept' = Some(b2)
                             /\ coefficients' = Some(w2)
                             /\ history' =
                                  [intercept |-> Append(history.intercept, b2),
                                   coefficients |->
                                       append_coefficients(history.coefficients, w2)]
                             /\ training_history' =
                                  IF epoch % 10 = 0
                                  THEN Some([epoch |-> Append(th.epoch, epoch),
                                             mse |-> Append(th.mse, mse_of(error))])
                                  ELSE training_history
                             /\ epoch' = epoch + 1
                             /\ UNCHANGED <<pc, call, outcome, result, fit_succeeded,
                                            ncalls>>

\* After the loop: the plots read training_history, which is bound only if
\* epoch 0 ran, and history["coefficients"][0]; then the function returns.
gd_finish ==
    /\ pc = "gd_loop"
    /\ epoch >= call.iterations
    /\ IF IsNone(training_history)
       THEN gd_raise(ErrUnbound)
       ELSE /\ pc' = "idle"
            /\ outcome' = Ok
            /\ fit_succeeded' = TRUE
            /\ UNCHANGED <<intercept, coefficients, call, epoch, history,
                           training_history, result, ncalls>>

\* predict(X).
predict(X) ==
    /\ BeginCall(PredictCall(X))
    /\ IF IsNone(coefficients) \/ IsNone(intercept)
       THEN /\ outcome' = ErrNotFitted
            /\ result' = <<>>
       ELSE IF X.ndim = 1
            THEN /\ outcome' = Ok
                 /\ result' = predict_1d(Val(intercept), Val(coefficients), X.data)
            ELSE IF NCols(X.data) # Len(Val(coefficients))
                 THEN /\ outcome' = ErrShapes
                      /\ result' = <<>>
                 ELSE /\ outcome' = Ok
                      /\ result' = predict_2d(Val(intercept), Val(coefficients), X.data)
    /\ UNCHANGED <<intercept, coefficients, pc, epoch, history, training_history,
                   fit_succeeded>>

------------------------------------------------------------------------------
(* The estimator's life: any sequence of fit and predict calls on one       *)
(* instance.                                                                *)
(*                                                                          *)
(* The design matrices and learning rates of the fits are chosen so that    *)
(* the exact rationals of a long gradient descent stay small: with          *)
(* G = X_b.T.dot(X_b), every eigenvalue of I - (2*learning_rate/m)*G is     *)
(* 1, 0 or -1, so the parameters are reached in one step or alternate       *)
(* between two values.                                                      *)

FitData ==
    { [X |-> Array2(<<<<R(1)>>, <<R(-1)>>>>), learning_rate |-> Q(1, 2)],
      [X |-> Array2(<<<<R(1)>>, <<R(-1)>>>>), learning_rate |-> R(1)],
      [X |-> Array2(<<<<R(1)>>>>),            learning_rate |-> Q(1, 4)],
      [X |-> Array2(<<<<R(2)>>>>),            learning_rate |-> Q(1, 5)],
      [X |-> Array1(<<R(1), R(-1)>>),         learning_rate |-> R(1)] }

FitTargets == { <<R(3)>>, <<R(1), R(3)>>, <<R(2), R(0), R(1)>> }

\* Method strings that are neither of the two the estimator has.
OtherMethods == {"bogus", "Least_Squares"}

\* The defaults of fit's signature: learning_rate=0.01, iterations=1000.
DefaultLearningRate == Q(1, 100)

DefaultIterations == 1000

PredictData ==
    { Array2(<<<<R(1)>>, <<R(-1)>>>>),
      Array1(<<R(1), R(-1)>>),
      Array2(<<<<R(1), R(2)>>>>) }

Init ==
    /\ EstimatorInit
    /\ ev = [pc |-> "unused"]
    /\ enc = [pc |-> "unused"]

\* fit(X, y): method "least_squares", the default.
FitLeastSquares ==
    \E d \in FitData, y \in FitTargets :
        /\ fit(d.X, y, "least_squares", DefaultLearningRate, DefaultIterations,
               Zero, Zero)
        /\ UNCHANGED <<ev, enc>>

\* fit(X, y, "gradient_descent", learning_rate, iterations), short runs.
FitGradientDescent ==
    \E d \in FitData, y \in FitTargets, iterations \in 0..MaxShortIter,
       draw_b \in RandDraws, draw_w \in RandDraws :
        /\ fit(d.X, y, "gradient_descent", d.learning_rate, iterations,
               draw_b, draw_w)
        /\ UNCHANGED <<ev, enc>>

\* fit(X, y, method) with a method the estimator does not have.
FitOtherMethod ==
    \E d \in FitData, y \in FitTargets, method \in OtherMethods :
        /\ fit(d.X, y, method, DefaultLearningRate, DefaultIterations, Zero, Zero)
        /\ UNCHANGED <<ev, enc>>

GdEpoch == gd_epoch /\ UNCHANGED <<ev, enc>>

GdFinish == gd_finish /\ UNCHANGED <<ev, enc>>

Predict == \E X \in PredictData : predict(X) /\ UNCHANGED <<ev, enc>>

Next ==
    \/ FitLeastSquares
    \/ FitGradientDescent
    \/ FitOtherMethod
    \/ GdEpoch
    \/ GdFinish
    \/ Predict

Spec == Init /\ [][Next]_vars

------------------------------------------------------------------------------
(* One gradient-descent fit on a fresh instance, with every iteration       *)
(* count up to MaxIter.                                                     *)

FitLongGradientDescent ==
    \E d \in FitData, y \in FitTargets, iterations \in 0..MaxIter,
       draw_b \in RandDraws, draw_w \in RandDraws :
        /\ ncalls = 0
        /\ fit(d.X, y, "gradient_descent", d.learning_rate, iterations,
               draw_b, draw_w)
        /\ UNCHANGED <<ev, enc>>

NextGD == FitLongGradientDescent \/ GdEpoch \/ GdFinish

SpecGD == Init /\ [][NextGD]_vars

------------------------------------------------------------------------------
(* Least squares on noiseless linear data: one fit_multiple on a fresh      *)
(* instance, then predict on the matrix it was fitted on.                   *)

\* The entries of the design matrices with one feature and with two.
LSValues(cols) == IF cols = 1 THEN {R(0), R(1), R(2)} ELSE {R(0), R(1)}

\* Every design matrix with rows rows and cols columns over LSValues.
Matrices(rows, cols) == [1..rows -> [1..cols -> LSValues(cols)]]

\* The parameters <<a, b>> of the linear relationships, for one and two features.
LSParameters(cols) ==
    IF cols = 1
    THEN { <<R(2), <<R(3)>>>>, <<R(-1), <<R(0)>>>>, <<Q(1, 2), <<R(-2)>>>> }
    ELSE { <<R(2), <<R(3), R(-1)>>>>, <<R(-1), <<R(0), R(3)>>>>,
           <<Q(1, 2), <<R(-2), R(-2)>>>> }

\* y[r] = a + sum_j b[j] * X[r][j].
RECURSIVE LinearCombination(_, _, _)
LinearCombination(b, row, j) ==
    IF j = 0 THEN Zero
    ELSE QAdd(QMul(b[j], row[j]), LinearCombination(b, row, j - 1))

Line(a, b, X) ==
    Arr([r \in 1..Len(X) |-> QAdd(a, LinearCombination(b, X[r], Len(b)))])

FitNoiseless ==
    \E rows \in 1..MaxRows, cols \in {1, 2} :
        \E X \in Matrices(rows, cols), p \in LSParameters(cols) :
            /\ ncalls = 0
            /\ fit(Array2(X), Line(p[1], p[2], X), "least_squares",
                   DefaultLearningRate, DefaultIterations, Zero, Zero)
            /\ UNCHANGED <<ev, enc>>

\* predict(X) on the X of the fit that has just returned.
PredictFitted ==
    /\ ncalls = 1
    /\ call.op = "fit"
    /\ predict(call.X)
    /\ UNCHANGED <<ev, enc>>

NextLS == FitNoiseless \/ PredictFitted

SpecLS == Init /\ [][NextLS]_vars

\* The four Penrose equations for P = pinv(G), G the Gram matrix of the last
\* fit's X_b: a check of the model of np.linalg.pinv itself.
PenroseConditions ==
    call.op = "fit" =>
        LET X_b == AddOnes(fit_X(call.X))
            n == NCols(X_b)
            G == MatMul(Transpose(X_b, n), X_b, n)
            P == pinv(G)
            GP == MatMul(G, P, n)
            PG == MatMul(P, G, n)
        IN  /\ MatMul(GP, G, n) = G
            /\ MatMul(PG, P, n) = P
            /\ Transpose(GP, n) = GP
            /\ Transpose(PG, n) = PG

------------------------------------------------------------------------------
(* Properties of the estimator.                                             *)

\* The number of rows of the X argument of the last call.
CallRows == Len(call.X.data)

\* The last call is a fit with one of the two methods the estimator has.
IsFitWith(method) == call.op = "fit" /\ call.method = method

\* C1: a predict call made when no earlier fit call on the instance has
\* returned normally fails with "Model is not yet fitted"; and a fit call that
\* fails part-way leaves intercept and coefficients undefined.
C1_PredictNeedsSuccessfulFit ==
    (pc = "idle" /\ ~fit_succeeded) =>
        /\ call.op = "predict" => outcome = ErrNotFitted
        /\ IsNone(intercept) /\ IsNone(coefficients)

\* C2: fit with a method string other than "least_squares" and
\* "gradient_descent" fails with the ValueError of fit before it dispatches,
\* and leaves intercept and coefficients exactly as they were.
C2_UnknownMethodRejected ==
    [][(/\ ncalls' = ncalls + 1
        /\ call'.op = "fit"
        /\ call'.method \notin {"least_squares", "gradient_descent"})
       => /\ outcome' = ErrMethod
          /\ pc' = "idle"
          /\ intercept' = intercept
          /\ coefficients' = coefficients
          /\ UNCHANGED <<epoch, history, training_history>>]_vars

\* C2's case: an unknown method is refused on an instance that was fitted
\* before, and the fitted parameters are still there.
C2_Witness ==
    /\ call.op = "fit"
    /\ call.method = "bogus"
    /\ outcome = ErrMethod
    /\ fit_succeeded
    /\ ~IsNone(intercept)
    /\ ~IsNone(coefficients)

\* C4: a fit whose X has a row count different from len(y) fails with a shape
\* error instead of computing parameters from the mismatched data.  Stated of
\* the calls that have ended; for gradient descent, of runs of at least one
\* epoch, which have read y.
C4_ShapesValidated ==
    (/\ pc = "idle"
     /\ call.op = "fit"
     /\ call.method \in {"least_squares", "gradient_descent"}
     /\ call.method = "gradient_descent" => call.iterations >= 1
     /\ Len(call.y) # CallRows)
    => outcome \in {ErrShapes, ErrBroadcast}

\* C5: for every iterations >= 0, fit_gradient_descent on well-shaped data
\* performs exactly `iterations` epochs and then returns normally with
\* intercept and coefficients defined.
C5_RunsAllEpochsAndReturns ==
    (/\ pc = "idle"
     /\ IsFitWith("gradient_descent")
     /\ Len(call.y) = CallRows)
    => /\ outcome = Ok
       /\ epoch = call.iterations
       /\ ~IsNone(intercept)
       /\ ~IsNone(coefficients)

\* The sum f[1] + ... + f[n].
RECURSIVE SumTo(_, _)
SumTo(f, n) == IF n = 0 THEN Zero ELSE QAdd(SumTo(f, n - 1), f[n])

\* C9: an epoch computes residual[i] = prediction[i] - target[i] from the
\* parameters held at its start, and subtracts (2*learning_rate/N) *
\* sum_i residual[i] from the intercept and (2*learning_rate/N) *
\* sum_i X[i][j] * residual[i] from coefficient j: both from that one
\* residual, the learning rate applied once.
C9_SimultaneousUpdate ==
    [][(pc = "gd_loop" /\ epoch' = epoch + 1)
       => LET X == IF call.X.ndim = 1
                   THEN [i \in 1..CallRows |-> <<call.X.data[i]>>]
                   ELSE call.X.data
              N == CallRows
              n == Len(X[1])
              b == intercept[1]
              w == coefficients[1]
              residual ==
                  Arr([i \in 1..N |->
                      QSub(QAdd(b, SumTo([j \in 1..n |-> QMul(w[j], X[i][j])], n)),
                           IF Len(call.y) = N THEN call.y[i] ELSE call.y[1])])
              k == QDiv(QMul(R(2), call.learning_rate), R(N))
          IN  /\ intercept' = <<QSub(b, QMul(k, SumTo(residual, N)))>>
              /\ Len(coefficients'[1]) = n
              /\ \A j \in 1..n :
                    coefficients'[1][j] =
                        QSub(w[j], QMul(k, SumTo([i \in 1..N |->
                                                     QMul(X[i][j], residual[i])], N)))
      ]_vars

\* C9's case: two epochs have run and both parameters moved in the second.
C9_Witness ==
    /\ pc = "gd_loop"
    /\ epoch = 2
    /\ history.intercept[1] # history.intercept[2]
    /\ history.coefficients[1] # history.coefficients[2]

\* C10, the counts: with e epochs completed the history holds e snapshots
\* (one for each of the epochs 0..e-1) and the MSE trace one entry for each
\* completed epoch that is a multiple of 10, in increasing order; a run that
\* returns has completed `iterations` epochs.
C10_Counts ==
    IsFitWith("gradient_descent") =>
        /\ Len(history.intercept) = epoch
        /\ Len(history.coefficients) = epoch
        /\ epoch = 0 => IsNone(training_history)
        /\ epoch >= 1 =>
              /\ ~IsNone(training_history)
              /\ LET th == training_history[1]
                 IN  /\ Len(th.epoch) = (epoch + 9) \div 10
                     /\ Len(th.mse) = Len(th.epoch)
                     /\ \A i \in 1..Len(th.epoch) : th.epoch[i] = 10 * (i - 1)
        /\ outcome = Ok => epoch = call.iterations

\* C10, the snapshots: an epoch adds one snapshot, equal to the parameters
\* right after its update, and changes none of the earlier ones.
C10_Snapshots ==
    [][epoch' = epoch + 1
       => LET hb == history.intercept
              hw == history.coefficients
          IN  /\ Len(history'.intercept) = Len(hb) + 1
              /\ Len(history'.coefficients) = Len(hw) + 1
              /\ \A i \in 1..Len(hb) : history'.intercept[i] = hb[i]
              /\ \A i \in 1..Len(hw) : history'.coefficients[i] = hw[i]
              /\ history'.intercept[Len(hb) + 1] = intercept'[1]
              /\ history'.coefficients[Len(hw) + 1] = coefficients'[1]
      ]_vars

\* C10: during and after a gradient-descent fit the parameter history and
\* the MSE trace hold what C10_Counts and C10_Snapshots say.
C10_HistoryAndTrace == []C10_Counts /\ C10_Snapshots

\* C10's case: a run of more than ten epochs has returned, with two entries
\* in its MSE trace and parameters that moved between snapshots.
C10_Witness ==
    /\ pc = "idle"
    /\ IsFitWith("gradient_descent")
    /\ outcome = Ok
    /\ epoch >= 11
    /\ Len(training_history[1].mse) = 2
    /\ history.coefficients[1] # history.coefficients[2]

------------------------------------------------------------------------------
(* Properties of least squares on noiseless data.                           *)

\* The determinant of a square matrix, by expansion along its first row.
Minor(M, c) ==
    Arr([i \in 1..(Len(M) - 1) |->
        Arr([j \in 1..(Len(M) - 1) |-> M[i + 1][IF j < c THEN j ELSE j + 1]])])

RECURSIVE Det(_)
Det(M) ==
    IF Len(M) = 1 THEN M[1][1]
    ELSE SumTo([c \in 1..Len(M) |->
                   QMul(IF c % 2 = 1 THEN M[1][c] ELSE QNeg(M[1][c]),
                        Det(Minor(M, c)))], Len(M))

\* The columns of X together with the ones column are linearly independent:
\* the Gram determinant of <<1, X>> is not zero.
IndependentColumns(X) ==
    LET B == [i \in 1..Len(X) |-> <<One>> \o X[i]]
        n == Len(B[1])
        gram == Arr([i \in 1..n |-> Arr([j \in 1..n |->
                    SumTo([r \in 1..Len(B) |-> QMul(B[r][i], B[r][j])], Len(B))])])
    IN  ~QIsZero(Det(gram))

\* C3, the parameters: after fit_multiple on y = a + X b with independent
\* columns, the intercept is a and the coefficients are b.
C3_Recovers ==
    (call.op = "fit" /\ outcome = Ok) =>
        \A p \in LSParameters(Len(call.X.data[1])) :
            (call.y = Line(p[1], p[2], call.X.data) /\ IndependentColumns(call.X.data))
            => (intercept = <<p[1]>> /\ coefficients = <<p[2]>>)

\* C3, the round trip: predict on the X of a fit_multiple on noiseless data
\* returns the y of that fit, element for element.
C3_RoundTrip ==
    [][(/\ call.op = "fit"
        /\ outcome = Ok
        /\ \E p \in LSParameters(Len(call.X.data[1])) :
              call.y = Line(p[1], p[2], call.X.data)
        /\ call'.op = "predict"
        /\ call'.X = call.X)
       => (outcome' = Ok /\ result' = call.y)]_vars

------------------------------------------------------------------------------
(* evaluate_regression(y_true, y_pred).                                     *)
(*                                                                          *)
(* Its results are floats that need not be finite: a float is a record      *)
(* with k = "num" (the rational v), "nan", "inf" or "ninf", or k = "sqrt"   *)
(* for the irrational square root of the rational v.                        *)

Float(q) == [k |-> "num", v |-> q]

NaN == [k |-> "nan", v |-> Zero]

PosInf == [k |-> "inf", v |-> Zero]

NegInf == [k |-> "ninf", v |-> Zero]

\* a / b in float arithmetic: numpy warns and gives nan or an infinity when b is 0.
float_div(a, b) ==
    IF ~QIsZero(b) THEN Float(QDiv(a, b))
    ELSE IF QIsZero(a) THEN NaN
    ELSE IF a[1] > 0 THEN PosInf ELSE NegInf

\* 1 - f.
one_minus(f) ==
    CASE f.k = "num" -> Float(QSub(One, f.v))
      [] f.k = "inf" -> NegInf
      [] f.k = "ninf" -> PosInf
      [] OTHER -> NaN

\* np.mean of a 1-D array: nan for the empty array (0.0 / 0).
np_mean(v) == float_div(np_sum(v), R(Len(v)))

\* The integer square root of i >= 0, when i is a square; else -1.
ExactRoot(i) ==
    IF \E r \in 0..i : r * r = i THEN CHOOSE r \in 0..i : r * r = i ELSE -1

\* np.sqrt of a float that is nan or not negative.
np_sqrt(f) ==
    IF f.k # "num" THEN f
    ELSE IF ExactRoot(f.v[1]) >= 0 /\ ExactRoot(f.v[2]) >= 0
         THEN Float(<<ExactRoot(f.v[1]), ExactRoot(f.v[2])>>)
         ELSE [k |-> "sqrt", v |-> f.v]

\* np.abs of a 1-D array.
np_abs(v) == Arr([i \in 1..Len(v) |-> QAbs(v[i])])

\* y_true - np.mean(y_true); the empty array when y_true is empty.
centered(y) ==
    LET mean == np_mean(y)
    IN  Arr([i \in 1..Len(y) |-> QSub(y[i], mean.v)])

\* R^2 with the subtraction from 1 forgotten.
r_squared_ratio_only(ss_res, ss_tot) == float_div(ss_res, ss_tot)

\* r_squared = 1 - (ss_res / ss_tot).
r_squared(ss_res, ss_tot) == one_minus(float_div(ss_res, ss_tot))

\* evaluate_regression for arrays of equal length: the returned dictionary.
evaluate_regression(y_true, y_pred) ==
    LET diff == VecSub(y_true, y_pred)
        ss_res == np_sum(VecMul(diff, diff))
        ss_tot == np_sum(VecMul(centered(y_true), centered(y_true)))
    IN  [R2 |-> r_squared(ss_res, ss_tot),
         RMSE |-> np_sqrt(np_mean(VecMul(diff, diff))),
         MAE |-> np_mean(np_abs(diff))]

\* Longest vector handed to evaluate_regression.
MaxLen == 3

\* The entries of the vectors.
EvalValues == {R(0), R(1), R(3)}

Vectors(len) == [1..len -> EvalValues]

\* The result field before the call has returned.
NoMetrics == [R2 |-> [k |-> "unset", v |-> Zero], RMSE |-> [k |-> "unset", v |-> Zero],
              MAE |-> [k |-> "unset", v |-> Zero]]

InitEval ==
    /\ EstimatorInit
    /\ enc = [pc |-> "unused"]
    /\ \E len \in 0..MaxLen :
          \E y_true \in Vectors(len), y_pred \in Vectors(len) :
              ev = [pc |-> "start", y_true |-> y_true, y_pred |-> y_pred,
                    out |-> NoMetrics]

Evaluate ==
    /\ ev.pc = "start"
    /\ ev' = [ev EXCEPT !.pc = "done",
                        !.out = evaluate_regression(ev.y_true, ev.y_pred)]
    /\ UNCHANGED <<estimator_vars, enc>>

NextEval == Evaluate

SpecEval == InitEval /\ [][NextEval]_vars

\* y has at least two different entries.
NotConstant(y) == \E i, j \in 1..Len(y) : y[i] # y[j]

\* C7 as stated: for every numeric vector y, evaluate_regression(y, y)
\* returns R2 = 1.0, RMSE = 0.0 and MAE = 0.0.
C7_IdenticalVectorsPerfectScore ==
    (ev.pc = "done" /\ ev.y_true = ev.y_pred) =>
        /\ ev.out.R2 = Float(One)
        /\ ev.out.RMSE = Float(Zero)
        /\ ev.out.MAE = Float(Zero)

\* C7 as amended: for every vector y that is not constant,
\* evaluate_regression(y, y) returns R2 = 1.0, RMSE = 0.0 and MAE = 0.0; for
\* a constant y that is not empty it returns R2 = nan, with RMSE = 0.0 and
\* MAE = 0.0.
C7_IdenticalVectors ==
    (ev.pc = "done" /\ ev.y_true = ev.y_pred /\ Len(ev.y_true) > 0) =>
        /\ ev.out.R2 = IF NotConstant(ev.y_true) THEN Float(One) ELSE NaN
        /\ ev.out.RMSE = Float(Zero)
        /\ ev.out.MAE = Float(Zero)

\* C7's case: a vector of three entries, not all equal, scored against itself.
C7_Witness ==
    /\ ev.pc = "done"
    /\ ev.y_true = ev.y_pred
    /\ Len(ev.y_true) = 3
    /\ NotConstant(ev.y_true)
    /\ ev.out.R2 = Float(One)

\* C8: when y_true is constant (SS_tot = 0), evaluate_regression returns
\* not-a-number as R2 (it has no DegenerateInput error to raise); it never
\* returns an ordinary or an infinite number.
C8_ConstantTrueGivesNaN ==
    (ev.pc = "done" /\ Len(ev.y_true) > 0 /\ ~NotConstant(ev.y_true)) =>
        ev.out.R2 = NaN

------------------------------------------------------------------------------
(* one_hot_encode(X, categorical_indices, drop_first).                      *)
(*                                                                          *)
(* X is a 2-D array of strings (what np.array makes of a matrix that has    *)
(* string columns): nrows rows of ncols cells.  np.unique sorts strings by  *)
(* code point, and astype(float) parses a cell, raising on one that is not  *)
(* a number.  Column indices are Python's, from 0.                          *)

\* The cells the model considers.
Cells == {"0", "1", "a", "b"}

\* The order of the cells as strings: "0" < "1" < "a" < "b".
CodePointRank(c) ==
    CASE c = "0" -> 1
      [] c = "1" -> 2
      [] c = "a" -> 3
      [] c = "b" -> 4

IsNumeric(c) == c \in {"0", "1"}

\* float(c) for a numeric cell.
ParseFloat(c) == IF c = "0" THEN R(0) ELSE R(1)

ErrFloat == "ValueError: could not convert string to float"

ErrStack == "ValueError: need at least one array to concatenate"

\* X[:, i].
Column(X, i) == Arr([r \in 1..X.nrows |-> X.rows[r][i + 1]])

\* The members of a set of cells as a sequence in ascending order.
RECURSIVE Sorted(_)
Sorted(S) ==
    IF S = {} THEN <<>>
    ELSE LET least == CHOOSE c \in S : \A d \in S : CodePointRank(c) <= CodePointRank(d)
         IN  <<least>> \o Sorted(S \ {least})

\* np.unique of a 1-D array: its distinct values, sorted.
np_unique(col) == Sorted({col[r] : r \in 1..Len(col)})

\* (col == category).astype(float).
one_hot_column(col, category) ==
    Arr([r \in 1..Len(col) |-> IF col[r] = category THEN One ELSE Zero])

\* The categories of a column: np.unique, without its first entry under drop_first.
categories_of(col, drop_first) ==
    LET categories == np_unique(col)
    IN  IF drop_first /\ Len(categories) > 0 THEN Tail(categories) ELSE categories

\* The loop of one_hot_encode over the columns i..ncols-1, appending to
\* X_transformed: the list built, or the error astype raised on the way.
RECURSIVE encode_from(_, _, _, _, _)
encode_from(X, categorical_indices, drop_first, i, X_transformed) ==
    IF i >= X.ncols THEN [err |-> Ok, columns |-> X_transformed]
    ELSE LET col == Column(X, i)
         IN  IF i \in categorical_indices
             THEN LET categories == categories_of(col, drop_first)
                      block == Arr([c \in 1..Len(categories) |->
                                       one_hot_column(col, categories[c])])
                  IN  encode_from(X, categorical_indices, drop_first, i + 1,
                                  X_transformed \o block)
             ELSE IF \E r \in 1..Len(col) : ~IsNumeric(col[r])
                  THEN [err |-> ErrFloat, columns |-> X_transformed]
                  ELSE encode_from(X, categorical_indices, drop_first, i + 1,
                                   Append(X_transformed,
                                          Arr([r \in 1..Len(col) |-> ParseFloat(col[r])])))

\* np.column_stack of a list of 1-D arrays of length nrows: raises on the
\* empty list.
column_stack(columns, nrows) ==
    IF Len(columns) = 0
    THEN [err |-> ErrStack, nrows |-> 0, ncols |-> 0, rows |-> <<>>]
    ELSE [err |-> Ok, nrows |-> nrows, ncols |-> Len(columns),
          rows |-> Arr([r \in 1..nrows |->
                       Arr([c \in 1..Len(columns) |-> columns[c][r]])])]

\* one_hot_encode: the matrix returned, or the exception raised.
one_hot_encode(X, categorical_indices, drop_first) ==
    LET built == encode_from(X, categorical_indices, drop_first, 0, <<>>)
    IN  IF built.err # Ok
        THEN [err |-> built.err, nrows |-> 0, ncols |-> 0, rows |-> <<>>]
        ELSE column_stack(built.columns, X.nrows)

\* Largest row count and column count of the matrices handed to the encoder.
MaxEncRows == 2

MaxEncCols == 2

NotReturned == [err |-> "running", nrows |-> 0, ncols |-> 0, rows |-> <<>>]

InitEnc ==
    /\ EstimatorInit
    /\ ev = [pc |-> "unused"]
    /\ \E nrows \in 0..MaxEncRows, ncols \in 1..MaxEncCols :
          \E rows \in [1..nrows -> [1..ncols -> Cells]],
             categorical_indices \in SUBSET (0..(ncols - 1)),
             drop_first \in BOOLEAN :
              enc = [pc |-> "start",
                     X |-> [nrows |-> nrows, ncols |-> ncols, rows |-> rows],
                     categorical_indices |-> categorical_indices,
                     drop_first |-> drop_first,
                     out |-> NotReturned]

Encode ==
    /\ enc.pc = "start"
    /\ enc' = [enc EXCEPT !.pc = "done",
                          !.out = one_hot_encode(enc.X, enc.categorical_indices,
                                                 enc.drop_first)]
    /\ UNCHANGED <<estimator_vars, ev>>

NextEnc == Encode

SpecEnc == InitEnc /\ [][NextEnc]_vars

\* The distinct values of column i of the argument, and those that get an
\* indicator column: all of them, or all but the smallest under drop_first.
DistinctIn(i) == {enc.X.rows[r][i + 1] : r \in 1..enc.X.nrows}

Encoded(i) ==
    {c \in DistinctIn(i) :
        ~enc.drop_first \/ \E d \in DistinctIn(i) : CodePointRank(d) < CodePointRank(c)}

\* The width of the block of column i, and the columns before that block.
BlockWidth(i) == IF i \in enc.categorical_indices THEN Cardinality(Encoded(i)) ELSE 1

RECURSIVE BlockStart(_)
BlockStart(i) == IF i = 0 THEN 0 ELSE BlockStart(i - 1) + BlockWidth(i - 1)

\* Every column outside categorical_indices holds numbers.
NumericColumnsAreNumbers ==
    \A i \in (0..(enc.X.ncols - 1)) \ enc.categorical_indices :
        \A c \in DistinctIn(i) : IsNumeric(c)

\* What the claim says of a returned matrix: as many rows as X, the blocks'
\* widths summed as its column count, and in the block of column i either
\* the column as numbers or, for the k-th smallest encoded value c, 1.0 in
\* the rows that hold c and 0.0 in the others.
IsTheEncoding(out) ==
    /\ out.err = Ok
    /\ out.nrows = enc.X.nrows
    /\ out.ncols = BlockStart(enc.X.ncols)
    /\ \A r \in 1..enc.X.nrows :
          /\ Len(out.rows[r]) = out.ncols
          /\ \A i \in 0..(enc.X.ncols - 1) :
                IF i \in enc.categorical_indices
                THEN \A c \in Encoded(i) :
                        LET k == Cardinality({d \in Encoded(i) :
                                     CodePointRank(d) <= CodePointRank(c)})
                        IN  out.rows[r][BlockStart(i) + k] =
                                IF enc.X.rows[r][i + 1] = c THEN One ELSE Zero
                ELSE out.rows[r][BlockStart(i) + 1] = ParseFloat(enc.X.rows[r][i + 1])

\* C6: one_hot_encode returns the matrix made of the blocks of X's columns in
\* index order (a block may have width zero), for every X whose other
\* columns hold numbers.
C6_EncodesEveryMatrix ==
    (enc.pc = "done" /\ NumericColumnsAreNumbers) => IsTheEncoding(enc.out)

\* The same with the empty result set aside: at least one column is emitted.
EncodesWhenSomeColumn ==
    (enc.pc = "done" /\ NumericColumnsAreNumbers /\ BlockStart(enc.X.ncols) > 0)
    => IsTheEncoding(enc.out)

\* Without NumericColumnsAreNumbers the call raises in astype(float).
RaisesOnNonNumber ==
    (enc.pc = "done" /\ ~NumericColumnsAreNumbers) => enc.out.err = ErrFloat

====
